---------------------------- MODULE Spec2Model ----------------------------
(***************************************************************************)
(* A model of mann-whitney-u.py: perform_mannwhitney_analysis (one linear  *)
(* pipeline: Loader, Splitter, Test Engine, Reporter, Visualizer, console  *)
(* report) and interpret_effect_size.                                      *)
(*                                                                         *)
(* Floats are modelled in fixed point, rounded down: statistics, effect    *)
(* sizes and descriptive statistics in thousandths (Milli), the p-value in *)
(* millionths (Micro).  Every threshold the program compares against       *)
(* (0.05, 0.10, 0.30, 0.50) is a multiple of the unit, so x < t holds of    *)
(* the real value exactly when it holds of its floor.  NaN is a value of   *)
(* its own; every comparison with it is false, as in IEEE arithmetic.      *)
(*                                                                         *)
(* The library calls are modelled by what the libraries compute:           *)
(* scipy.stats.mannwhitneyu(alternative='two-sided') with its defaults     *)
(* (method='auto', use_continuity=True), scipy.stats.norm.ppf, and the     *)
(* pandas reductions median, mean, std (ddof=1) and quantile (linear).     *)
(* The normal distribution is a table of its survival function at steps of *)
(* 0.05 with linear interpolation, so a p-value of the asymptotic method   *)
(* and every z-score are accurate to about 3e-4, not to the last bit; the  *)
(* exact method's p-value is exact.  The repository pins no library        *)
(* version: the model is of scipy 1.7 and later (the 'method' parameter),  *)
(* and where those versions differ (empty samples) it takes either         *)
(* behaviour.  A failing write is modelled as failing before the file      *)
(* exists.                                                                 *)
(***************************************************************************)
EXTENDS Integers, Sequences, FiniteSets, TLC

VARIABLES
    input,          \* the spreadsheet at excel_path: [exists, columns, rows]
    clock,          \* wall clock, in ticks
    run,            \* number of the current invocation
    pc,             \* position of the current invocation in the pipeline
    failedAt,       \* the stage whose exception ended the run, or "none"
    output_prefix,  \* parameter of the current invocation
    df,             \* the table read by the Loader
    group1_data,
    group2_data,
    statistic,
    p_value,
    z_score,
    effect_size,
    desc_stats,
    results,
    timestamp,
    workbook,       \* what this run wrote to the results workbook
    plot,           \* what this run rendered and saved
    disk,           \* output files: file name -> the run that wrote its content
    fslog,          \* this run's filesystem accesses, in order
    console         \* this run's console lines, in order

vars == <<input, clock, run, pc, failedAt, output_prefix, df, group1_data,
          group2_data, statistic, p_value, z_score, effect_size, desc_stats,
          results, timestamp, workbook, plot, disk, fslog, console>>

---------------------------------------------------------------------------
(* Bounds of the model *)

MaxRows == 4            \* rows of an enumerated dataset
MaxSep == 5             \* group sizes of the enumerated separated datasets
MaxClock == 2           \* ticks the clock may advance
MaxRuns == 2            \* invocations in a sequence of runs
TicksPerSecond == 2     \* clock ticks in one second of the timestamp

---------------------------------------------------------------------------
(* Floats in fixed point *)

Milli == 1000
Micro == 1000000
NaN == -999999999

\* x < y on floats: false when either side is NaN.
FloatLt(x, y) == x # NaN /\ y # NaN /\ x < y

Min(a, b) == IF a < b THEN a ELSE b
Max(a, b) == IF a > b THEN a ELSE b

RECURSIVE SqrtSearch(_, _, _)
SqrtSearch(n, lo, hi) ==
    IF lo = hi THEN lo
    ELSE LET mid == (lo + hi + 1) \div 2
         IN  IF mid * mid <= n THEN SqrtSearch(n, mid, hi)
                               ELSE SqrtSearch(n, lo, mid - 1)

\* floor(sqrt(n)), as np.sqrt rounded down to the unit.
ISqrt(n) == SqrtSearch(n, 0, 46340)

RECURSIVE LongDiv(_, _, _, _)
LongDiv(q, r, d, digits) ==
    IF digits = 0 THEN q
    ELSE LongDiv(q * 10 + (r * 10) \div d, (r * 10) % d, d, digits - 1)

\* floor(num / den * 10^digits), digit by digit.
ScaledDiv(num, den, digits) == LongDiv(num \div den, num % den, den, digits)

RECURSIVE SumDom(_, _)
SumDom(f, D) ==
    IF D = {} THEN 0
    ELSE LET d == CHOOSE e \in D : TRUE
         IN  f[d] + SumDom(f, D \ {d})

SumSeq(s) == SumDom(s, DOMAIN s)

---------------------------------------------------------------------------
(* scipy.stats.norm *)

\* 10^6 * (1 - Phi(z)) at z = 0.00, 0.05, ..., 5.00.
NormSfTable ==
    <<500000, 480061, 460172, 440382, 420740, 401294, 382089, 363169, 344578, 326355,
      308538, 291160, 274253, 257846, 241964, 226627, 211855, 197663, 184060, 171056,
      158655, 146859, 135666, 125072, 115070, 105650, 96800, 88508, 80757, 73529,
      66807, 60571, 54799, 49471, 44565, 40059, 35930, 32157, 28717, 25588, 22750,
      20182, 17864, 15778, 13903, 12224, 10724, 9387, 8198, 7143, 6210, 5386, 4661,
      4025, 3467, 2980, 2555, 2186, 1866, 1589, 1350, 1144, 968, 816, 687, 577, 483,
      404, 337, 280, 233, 193, 159, 131, 108, 88, 72, 59, 48, 39, 32, 26, 21, 17, 13,
      11, 9, 7, 5, 4, 3, 3, 2, 2, 1, 1, 1, 1, 0, 0, 0>>

TableStep == 50         \* the table's step, in thousandths

\* norm.sf(z) for z >= 0 in thousandths, in millionths.
NormSfPos(z) ==
    LET i == z \div TableStep
    IN  IF i + 1 >= Len(NormSfTable) THEN 0
        ELSE NormSfTable[i + 1]
             - ((NormSfTable[i + 1] - NormSfTable[i + 2]) * (z % TableStep))
               \div TableStep

\* |norm.ppf(q)| for 0 <= q <= 0.5 (q in millionths), in thousandths; the
\* inverse of NormSfPos.  Below the table's last positive entry the quantile
\* is taken at the table's end (norm.ppf(0) is -inf).
NormPpfAbs(q) ==
    LET segs == {i \in 1..(Len(NormSfTable) - 1) :
                    NormSfTable[i] >= q /\ q > NormSfTable[i + 1]}
    IN  IF q = NaN THEN NaN
        ELSE IF segs = {} THEN TableStep * (Len(NormSfTable) - 1)
        ELSE LET i == CHOOSE j \in segs : TRUE
             IN  TableStep * (i - 1)
                 + ((NormSfTable[i] - q) * TableStep)
                   \div (NormSfTable[i] - NormSfTable[i + 1])

---------------------------------------------------------------------------
(* scipy.stats.mannwhitneyu(x, y, alternative='two-sided') *)

Range(s) == {s[i] : i \in DOMAIN s}

\* 2 * U1: a pair with x[i] > y[j] counts 1, a tied pair 1/2 (U1 is the rank
\* sum of x minus n1(n1+1)/2, ties given their average rank).
U1x2(x, y) ==
    2 * Cardinality({ij \in (DOMAIN x) \X (DOMAIN y) : x[ij[1]] > y[ij[2]]})
    + Cardinality({ij \in (DOMAIN x) \X (DOMAIN y) : x[ij[1]] = y[ij[2]]})

\* Whether two observations of the pooled sample are equal.
HasTies(xy) == \E i, j \in DOMAIN xy : i < j /\ xy[i] = xy[j]

\* The tie term sum(t^3 - t) over the groups of equal pooled observations.
TieTerm(xy) ==
    LET t == [v \in Range(xy) |-> Cardinality({i \in DOMAIN xy : xy[i] = v})]
    IN  SumDom([v \in Range(xy) |-> t[v] * t[v] * t[v] - t[v]], Range(xy))

\* Number of arrangements of n1 and n2 untied observations with statistic u.
RECURSIVE MwuCount(_, _, _)
MwuCount(u, n1, n2) ==
    IF u < 0 THEN 0
    ELSE IF n1 = 0 \/ n2 = 0 THEN (IF u = 0 THEN 1 ELSE 0)
    ELSE MwuCount(u - n2, n1 - 1, n2) + MwuCount(u, n1, n2 - 1)

RECURSIVE Comb(_, _)
Comb(n, k) == IF k = 0 THEN 1 ELSE (Comb(n, k - 1) * (n - k + 1)) \div k

ExactMaxSize == 8

\* method='auto': the normal approximation when both samples are larger than
\* 8 or the pooled sample has ties, the exact distribution otherwise.
MwuMethod(x, y) ==
    IF Len(x) > ExactMaxSize /\ Len(y) > ExactMaxSize THEN "asymptotic"
    ELSE IF HasTies(x \o y) THEN "asymptotic"
    ELSE "exact"

\* A faulty variant of MwuExactP: the tail is not doubled (a one-sided test).
MwuExactPOneSided(x, y) ==
    LET n1 == Len(x)
        n2 == Len(y)
        u1 == U1x2(x, y) \div 2
        u == Max(u1, n1 * n2 - u1)
        cnt == SumDom([k \in u..(n1 * n2) |-> MwuCount(k, n1, n2)],
                      u..(n1 * n2))
    IN  ScaledDiv(cnt, Comb(n1 + n2, n1), 6)

\* The exact two-sided p-value: P(U >= max(U1, U2)) doubled, clipped to 1.
MwuExactP(x, y) ==
    LET n1 == Len(x)
        n2 == Len(y)
        u1 == U1x2(x, y) \div 2
        u == Max(u1, n1 * n2 - u1)
        cnt == SumDom([k \in u..(n1 * n2) |-> MwuCount(k, n1, n2)],
                      u..(n1 * n2))
        den == Comb(n1 + n2, n1)
    IN  IF 2 * cnt >= den THEN Micro
        ELSE ScaledDiv(2 * cnt, den, 6)

\* The asymptotic two-sided p-value, with tie and continuity corrections:
\* z = (max(U1,U2) - n1 n2/2 - 1/2) / s,
\* s^2 = n1 n2/12 * ((n+1) - tie/(n(n-1))), p = clip(2 * norm.sf(z), 0, 1).
MwuAsymptoticP(x, y) ==
    LET n1 == Len(x)
        n2 == Len(y)
        n == n1 + n2
        u2 == Max(U1x2(x, y), 2 * n1 * n2 - U1x2(x, y))
        num2 == u2 - n1 * n2 - 1
        zn == 3 * num2 * num2 * n * (n - 1)
        zd == n1 * n2 * (n * (n * n - 1) - TieTerm(x \o y))
        zabs == ISqrt(ScaledDiv(zn, zd, 6))
        sf == IF num2 >= 0 THEN NormSfPos(zabs) ELSE Micro - NormSfPos(zabs)
    IN  IF zd = 0
        THEN (IF num2 < 0 THEN Micro ELSE IF num2 = 0 THEN NaN ELSE 0)
        ELSE Min(Micro, 2 * sf)

\* What the call does on empty input depends on the installed scipy: 1.7 to
\* 1.13 raise ValueError ("`x` and `y` must be of nonzero size."), 1.14 and
\* later warn (SmallSampleWarning) and return NaN for both results.
EmptyOutcomes == {"raise", "nan"}

\* The call's result: [outcome, statistic (U1, thousandths), pvalue].
mannwhitneyu(x, y, onEmpty) ==
    IF Len(x) = 0 \/ Len(y) = 0
    THEN [outcome |-> onEmpty, statistic |-> NaN, pvalue |-> NaN]
    ELSE [outcome |-> "ok",
          statistic |-> U1x2(x, y) * (Milli \div 2),
          pvalue |-> IF MwuMethod(x, y) = "exact" THEN MwuExactP(x, y)
                     ELSE MwuAsymptoticP(x, y)]

---------------------------------------------------------------------------
(* pandas reductions of a Series of numbers, in thousandths *)

Sorted(s) == SortSeq(s, LAMBDA a, b : a < b)

\* Series.median(): NaN when empty, else the middle of the sorted values.
Median(s) ==
    LET n == Len(s)
        t == Sorted(s)
    IN  IF n = 0 THEN NaN
        ELSE IF n % 2 = 1 THEN Milli * t[(n + 1) \div 2]
        ELSE (Milli \div 2) * (t[n \div 2] + t[n \div 2 + 1])

\* Series.mean().
Mean(s) ==
    IF Len(s) = 0 THEN NaN ELSE (Milli * SumSeq(s)) \div Len(s)

\* Series.std(): the sample standard deviation (ddof=1), NaN below 2 values.
Std(s) ==
    LET n == Len(s)
        sq == SumSeq([i \in DOMAIN s |-> s[i] * s[i]])
        sm == SumSeq(s)
    IN  IF n < 2 THEN NaN
        ELSE ISqrt(ScaledDiv(n * sq - sm * sm, n * (n - 1), 6))

\* Series.quantile(k/4) with linear interpolation between the order
\* statistics around position (n-1) * k/4.
Quantile(s, k) ==
    LET n == Len(s)
        t == Sorted(s)
        lo == ((n - 1) * k) \div 4
        fr == ((n - 1) * k) % 4
    IN  IF n = 0 THEN NaN
        ELSE IF fr = 0 THEN Milli * t[lo + 1]
        ELSE Milli * t[lo + 1] + (Milli \div 4) * fr * (t[lo + 2] - t[lo + 1])

---------------------------------------------------------------------------
(* interpret_effect_size *)

\* A faulty variant of interpret_effect_size: the thresholds belong to the
\* lower band.
interpret_effect_sizeInclusive(r) ==
    IF r = NaN THEN "Large effect"
    ELSE IF r <= 100 THEN "Negligible effect"
    ELSE IF r <= 300 THEN "Small effect"
    ELSE IF r <= 500 THEN "Medium effect"
    ELSE "Large effect"

interpret_effect_size(r) ==
    IF FloatLt(r, 100) THEN "Negligible effect"
    ELSE IF FloatLt(r, 300) THEN "Small effect"
    ELSE IF FloatLt(r, 500) THEN "Medium effect"
    ELSE "Large effect"

---------------------------------------------------------------------------
(* Parameters of perform_mannwhitney_analysis, as __main__ passes them *)

ExcelPath == "data.xlsx"
GroupColumn == "Group"
ValueColumn == "Value"
Group1Name == "Control"
Group2Name == "Treatment"
DefaultPrefix == "mannwhitney"
Prefixes == {DefaultPrefix, "pilot"}

---------------------------------------------------------------------------
(* Inputs: the spreadsheet at excel_path *)

Labels == {Group1Name, Group2Name, "Other"}
Values == {1, 2}
Text == 0               \* a cell of the value column that holds text

Row(g, v) == [Group |-> g, Value |-> v]

\* Every table of at most MaxRows rows over Labels and Values.
SmallDatasets ==
    UNION {[1..n -> {Row(g, v) : g \in Labels, v \in Values}] : n \in 0..MaxRows}

\* n1 rows of group 1 holding 1..n1, then n2 rows of group 2 holding
\* n1+gap .. n1+gap+n2-1; with swap, the two labels exchanged.
Separated(n1, n2, gap, swap) ==
    [i \in 1..(n1 + n2) |->
        IF i <= n1 THEN Row(IF swap THEN Group2Name ELSE Group1Name, i)
        ELSE Row(IF swap THEN Group1Name ELSE Group2Name, i + gap - 1)]

\* Control = 1..10, Treatment = 11..20.
EndToEndDataset == Separated(10, 10, 1, FALSE)

\* Control = [1,2,3], Treatment = [10,11,12].
ExampleSeparated == Separated(3, 3, 7, FALSE)

SeparatedDatasets ==
    {Separated(n1, n2, 1, sw) : n1 \in 1..MaxSep, n2 \in 1..MaxSep, sw \in BOOLEAN}
    \cup {EndToEndDataset, ExampleSeparated, Separated(1, 39, 1, FALSE),
          Separated(2, 8, 1, TRUE)}

\* Tables whose compared groups hold a text cell among their numbers.
TextDatasets ==
    {<<Row(Group1Name, 1), Row(Group1Name, Text), Row(Group2Name, 2)>>,
     <<Row(Group1Name, 1), Row(Group2Name, Text), Row(Group2Name, 2)>>}

Sheet(rows) == [exists |-> TRUE, columns |-> {GroupColumn, ValueColumn},
                rows |-> rows]

MissingFile == [exists |-> FALSE, columns |-> {}, rows |-> <<>>]

\* A sheet whose label column has another name.
WrongColumns ==
    [exists |-> TRUE, columns |-> {"Label", ValueColumn},
     rows |-> <<[Label |-> Group1Name, Value |-> 1],
                [Label |-> Group2Name, Value |-> 2]>>]

Inputs ==
    {Sheet(r) : r \in SmallDatasets \cup SeparatedDatasets \cup TextDatasets}
    \cup {MissingFile, WrongColumns}

\* The inputs of the model of a sequence of runs.
RunInputs ==
    {Sheet(ExampleSeparated), Sheet(<<Row(Group1Name, 1)>>),
     Sheet(<<Row(Group1Name, 1), Row(Group1Name, Text), Row(Group2Name, 2)>>),
     MissingFile, WrongColumns}

---------------------------------------------------------------------------
(* The state of one invocation *)

Unset == <<>>

\* datetime.now().strftime('%Y%m%d_%H%M%S'): the clock to the second.
Strftime(t) == t \div TicksPerSecond

\* A faulty variant of FileName: the name carries no timestamp.
FileNameUnstamped(prefix, kind, stamp) ==
    [prefix |-> prefix, kind |-> kind, stamp |-> 0]

\* f'{output_prefix}_{kind}_{timestamp}' with its extension: the stamp has a
\* fixed width, so the name determines the three parts.
FileName(prefix, kind, stamp) ==
    [prefix |-> prefix, kind |-> kind, stamp |-> stamp]

\* f'{x:.4f}' of a value in thousandths, in ten-thousandths.
Fmt4(x) == IF x = NaN THEN NaN ELSE 10 * x

\* f'{p_value:.4f}', rounded to the nearest ten-thousandth.
FmtP4(p) == IF p = NaN THEN NaN ELSE (p + 50) \div 100

Line(tag, value) == [tag |-> tag, value |-> value]

\* A faulty variant of Select: the matching values in reverse row order.
RECURSIVE SelectReversed(_, _)
SelectReversed(rows, name) ==
    IF rows = <<>> THEN <<>>
    ELSE IF Head(rows)[GroupColumn] = name
         THEN SelectReversed(Tail(rows), name) \o <<Head(rows)[ValueColumn]>>
         ELSE SelectReversed(Tail(rows), name)

\* df[df[group_column] == name][value_column]: the values of the rows whose
\* label equals name, in row order.
RECURSIVE Select(_, _)
Select(rows, name) ==
    IF rows = <<>> THEN <<>>
    ELSE IF Head(rows)[GroupColumn] = name
         THEN <<Head(rows)[ValueColumn]>> \o Select(Tail(rows), name)
         ELSE Select(Tail(rows), name)

\* A faulty variant of Significant: p = 0.05 counts as significant.
SignificantInclusive(p) == IF p # NaN /\ p <= 50000 THEN "Yes" ELSE "No"

\* 'Yes' if p_value < 0.05 else 'No'
Significant(p) == IF FloatLt(p, 50000) THEN "Yes" ELSE "No"

\* A faulty variant of ZScore: the p-value is not halved.
ZScoreOfWholeP(p) == IF p = NaN THEN NaN ELSE 0 - NormPpfAbs(p)

\* z_score = stats.norm.ppf(p_value/2), never positive.
ZScore(p) == IF p = NaN THEN NaN ELSE 0 - NormPpfAbs(p \div 2)

\* A faulty variant of EffectSize: the division is by n1 + n2, not its root.
EffectSizeNoRoot(z, n1, n2) ==
    IF z = NaN THEN NaN
    ELSE IF n1 + n2 = 0 THEN NaN
    ELSE (IF z < 0 THEN 0 - z ELSE z) \div (n1 + n2)

\* effect_size = abs(z_score / np.sqrt(n1 + n2)); NaN propagates, also
\* through nan / sqrt(0).
EffectSize(z, n1, n2) ==
    IF z = NaN THEN NaN ELSE ISqrt((z * z) \div (n1 + n2))

DescStats(g1, g2) ==
    [c \in {"Statistic", Group1Name, Group2Name} |->
        IF c = "Statistic"
        THEN <<"Count", "Median", "Mean", "Std Dev", "25th Percentile",
               "75th Percentile">>
        ELSE LET g == IF c = Group1Name THEN g1 ELSE g2
             IN  <<Len(g), Median(g), Mean(g), Std(g), Quantile(g, 1),
                   Quantile(g, 3)>>]

Results(U, p, r, g1, g2) ==
    [TestType |-> "Mann-Whitney U Test",
     U |-> U,
     p |-> p,
     EffectSize |-> r,
     Interpretation |-> interpret_effect_size(r),
     Significant |-> Significant(p),
     Group1 |-> Group1Name,
     Group2 |-> Group2Name,
     Group1Median |-> Median(g1),
     Group2Median |-> Median(g2)]

HasText(s) == \E i \in DOMAIN s : s[i] = Text

\* The locals of an invocation before it assigns them.
Locals ==
    /\ df = Unset
    /\ group1_data = <<>>
    /\ group2_data = <<>>
    /\ statistic = NaN
    /\ p_value = NaN
    /\ z_score = NaN
    /\ effect_size = NaN
    /\ desc_stats = Unset
    /\ results = Unset
    /\ timestamp = NaN
    /\ workbook = Unset
    /\ plot = Unset
    /\ fslog = <<>>
    /\ console = <<>>

Init ==
    /\ input \in Inputs
    /\ clock = 0
    /\ run = 1
    /\ pc = "start"
    /\ failedAt = "none"
    /\ output_prefix = DefaultPrefix
    /\ disk = <<>>
    /\ Locals

\* A faulty variant of Raise: the exception is swallowed and the run goes on
\* to print its results.
RaiseSwallowed(stage) ==
    /\ pc' = "plotted"
    /\ failedAt' = stage

\* An exception leaves the function: nothing after the raising statement runs.
Raise(stage) ==
    /\ pc' = "failed"
    /\ failedAt' = stage

---------------------------------------------------------------------------
(* The pipeline *)

\* Time passes.
Tick ==
    /\ clock < MaxClock
    /\ clock' = clock + 1
    /\ UNCHANGED <<input, run, pc, failedAt, output_prefix, df, group1_data,
                   group2_data, statistic, p_value, z_score, effect_size,
                   desc_stats, results, timestamp, workbook, plot, disk,
                   fslog, console>>

\* Lines 32-33: df = pd.read_excel(excel_path).
Loader ==
    /\ pc = "start"
    /\ input.exists
    /\ console' = Append(console, Line("Reading data from", ExcelPath))
    /\ fslog' = Append(fslog, [op |-> "read", file |-> ExcelPath])
    /\ df' = [columns |-> input.columns, rows |-> input.rows]
    /\ pc' = "loaded"
    /\ UNCHANGED <<input, clock, run, failedAt, output_prefix, group1_data,
                   group2_data, statistic, p_value, z_score, effect_size,
                   desc_stats, results, timestamp, workbook, plot, disk>>

\* Line 33 raises (FileNotFoundError) when the file is missing.
LoaderFail ==
    /\ pc = "start"
    /\ ~input.exists
    /\ console' = Append(console, Line("Reading data from", ExcelPath))
    /\ fslog' = Append(fslog, [op |-> "read", file |-> ExcelPath])
    /\ Raise("Loader")
    /\ UNCHANGED <<input, clock, run, output_prefix, df, group1_data,
                   group2_data, statistic, p_value, z_score, effect_size,
                   desc_stats, results, timestamp, workbook, plot, disk>>

\* Lines 36-37.
Splitter ==
    /\ pc = "loaded"
    /\ {GroupColumn, ValueColumn} \subseteq df.columns
    /\ group1_data' = Select(df.rows, Group1Name)
    /\ group2_data' = Select(df.rows, Group2Name)
    /\ pc' = "split"
    /\ UNCHANGED <<input, clock, run, failedAt, output_prefix, df, statistic,
                   p_value, z_score, effect_size, desc_stats, results,
                   timestamp, workbook, plot, disk, fslog, console>>

\* Line 36 raises (KeyError) when the sheet lacks a named column.
SplitterFail ==
    /\ pc = "loaded"
    /\ ~({GroupColumn, ValueColumn} \subseteq df.columns)
    /\ Raise("Splitter")
    /\ UNCHANGED <<input, clock, run, output_prefix, df, group1_data,
                   group2_data, statistic, p_value, z_score, effect_size,
                   desc_stats, results, timestamp, workbook, plot, disk,
                   fslog, console>>

\* Lines 40-49: the test, then the effect size.
TestEngine ==
    /\ pc = "split"
    /\ ~HasText(group1_data \o group2_data)
    /\ \E onEmpty \in EmptyOutcomes :
          LET res == mannwhitneyu(group1_data, group2_data, onEmpty)
              z == ZScore(res.pvalue)
          IN  /\ res.outcome # "raise"
              /\ statistic' = res.statistic
              /\ p_value' = res.pvalue
              /\ z_score' = z
              /\ effect_size' = EffectSize(z, Len(group1_data), Len(group2_data))
    /\ pc' = "tested"
    /\ UNCHANGED <<input, clock, run, failedAt, output_prefix, df,
                   group1_data, group2_data, desc_stats, results, timestamp,
                   workbook, plot, disk, fslog, console>>

\* Line 40 raises: a text cell in a sample (TypeError), or an empty sample
\* under a scipy that rejects it (ValueError).
TestEngineFail ==
    /\ pc = "split"
    /\ \/ HasText(group1_data \o group2_data)
       \/ \E onEmpty \in EmptyOutcomes :
             mannwhitneyu(group1_data, group2_data, onEmpty).outcome = "raise"
    /\ Raise("TestEngine")
    /\ UNCHANGED <<input, clock, run, output_prefix, df, group1_data,
                   group2_data, statistic, p_value, z_score, effect_size,
                   desc_stats, results, timestamp, workbook, plot, disk,
                   fslog, console>>

\* disk after this run wrote (created or replaced) the file name: its content
\* is this run's, identified by the run, its prefix and its timestamp.
Written(name, stamp) ==
    [f \in DOMAIN disk \cup {name} |->
        IF f = name
        THEN [run |-> run, prefix |-> output_prefix, stamp |-> stamp]
        ELSE disk[f]]

\* The name of the results workbook (line 81).
ExcelOutput(stamp) == FileName(output_prefix, "results", stamp)

\* A faulty variant of PlotOutput: the plot's name takes the time anew.
PlotOutputRestamped(stamp, now) == FileName(output_prefix, "plot", now)

\* The name of the plot (line 112): the stamp taken at line 78.
PlotOutput(stamp, now) == FileName(output_prefix, "plot", stamp)

\* Lines 52-90: descriptive statistics, the results, the timestamp, the
\* workbook with its two sheets.
Reporter ==
    /\ pc = "tested"
    /\ desc_stats' = DescStats(group1_data, group2_data)
    /\ results' = Results(statistic, p_value, effect_size, group1_data,
                          group2_data)
    /\ timestamp' = Strftime(clock)
    /\ workbook' = [TestResults |-> results', DescriptiveStats |-> desc_stats']
    /\ disk' = Written(ExcelOutput(timestamp'), timestamp')
    /\ fslog' = Append(fslog, [op |-> "write", file |-> ExcelOutput(timestamp')])
    /\ console' = Append(console,
                         Line("Results saved to", ExcelOutput(timestamp')))
    /\ pc' = "reported"
    /\ UNCHANGED <<input, clock, run, failedAt, output_prefix, df,
                   group1_data, group2_data, statistic, p_value, z_score,
                   effect_size, plot>>

\* Line 82 raises when the workbook cannot be created (OSError): the locals
\* are set, nothing is written.
ReporterFail ==
    /\ pc = "tested"
    /\ desc_stats' = DescStats(group1_data, group2_data)
    /\ results' = Results(statistic, p_value, effect_size, group1_data,
                          group2_data)
    /\ timestamp' = Strftime(clock)
    /\ Raise("Reporter")
    /\ UNCHANGED <<input, clock, run, output_prefix, df, group1_data,
                   group2_data, statistic, p_value, z_score, effect_size,
                   workbook, plot, disk, fslog, console>>

\* Lines 93-116: the two panels drawn from df, saved under the plot's name.
Visualizer ==
    /\ pc = "reported"
    /\ plot' = [x |-> [i \in DOMAIN df.rows |-> df.rows[i][GroupColumn]],
                y |-> [i \in DOMAIN df.rows |-> df.rows[i][ValueColumn]],
                order |-> <<Group1Name, Group2Name>>,
                title |-> FmtP4(p_value)]
    /\ disk' = Written(PlotOutput(timestamp, Strftime(clock)), timestamp)
    /\ fslog' = Append(fslog, [op |-> "write",
                               file |-> PlotOutput(timestamp, Strftime(clock))])
    /\ console' = Append(console,
                         Line("Plot saved to",
                              PlotOutput(timestamp, Strftime(clock))))
    /\ pc' = "plotted"
    /\ UNCHANGED <<input, clock, run, failedAt, output_prefix, df,
                   group1_data, group2_data, statistic, p_value, z_score,
                   effect_size, desc_stats, results, timestamp, workbook>>

\* A plotting call or savefig raises before the image exists.
VisualizerFail ==
    /\ pc = "reported"
    /\ Raise("Visualizer")
    /\ UNCHANGED <<input, clock, run, output_prefix, df, group1_data,
                   group2_data, statistic, p_value, z_score, effect_size,
                   desc_stats, results, timestamp, workbook, plot, disk,
                   fslog, console>>

\* Lines 119-127: the results on the console.
PrintResults ==
    /\ pc = "plotted"
    /\ console' = console \o
          <<Line("Mann-Whitney U Test Results:", ""),
            Line("U-statistic", Fmt4(statistic)),
            Line("p-value", FmtP4(p_value)),
            Line("Effect size (r)", Fmt4(effect_size)),
            Line("Effect size interpretation",
                 interpret_effect_size(effect_size)),
            Line("Significant difference", Significant(p_value)),
            Line("Descriptive Statistics:", desc_stats)>>
    /\ pc' = "done"
    /\ UNCHANGED <<input, clock, run, failedAt, output_prefix, df,
                   group1_data, group2_data, statistic, p_value, z_score,
                   effect_size, desc_stats, results, timestamp, workbook,
                   plot, disk, fslog>>

Next ==
    \/ Tick
    \/ Loader
    \/ LoaderFail
    \/ Splitter
    \/ SplitterFail
    \/ TestEngine
    \/ TestEngineFail
    \/ Reporter
    \/ ReporterFail
    \/ Visualizer
    \/ VisualizerFail
    \/ PrintResults

Spec == Init /\ [][Next]_vars

---------------------------------------------------------------------------
(* A sequence of invocations against the same directory *)

\* The next invocation starts once the last has returned or raised; the
\* output files stay.
StartRun ==
    /\ pc \in {"done", "failed"}
    /\ run < MaxRuns
    /\ run' = run + 1
    /\ pc' = "start"
    /\ failedAt' = "none"
    /\ output_prefix' \in Prefixes
    /\ df' = Unset
    /\ group1_data' = <<>>
    /\ group2_data' = <<>>
    /\ statistic' = NaN
    /\ p_value' = NaN
    /\ z_score' = NaN
    /\ effect_size' = NaN
    /\ desc_stats' = Unset
    /\ results' = Unset
    /\ timestamp' = NaN
    /\ workbook' = Unset
    /\ plot' = Unset
    /\ fslog' = <<>>
    /\ console' = <<>>
    /\ UNCHANGED <<input, clock, disk>>

InitRuns ==
    /\ input \in RunInputs
    /\ clock = 0
    /\ run = 1
    /\ pc = "start"
    /\ failedAt = "none"
    /\ output_prefix \in Prefixes
    /\ disk = <<>>
    /\ Locals

NextRuns == Next \/ StartRun

SpecRuns == InitRuns /\ [][NextRuns]_vars

---------------------------------------------------------------------------
(* interpret_effect_size on its own: one call per effect size *)

MaxEffect == 1000       \* effect sizes 0.000 .. 1.000

InitInterpret ==
    /\ input = MissingFile
    /\ clock = 0
    /\ run = 1
    /\ pc = "call"
    /\ failedAt = "none"
    /\ output_prefix = DefaultPrefix
    /\ disk = <<>>
    /\ df = Unset
    /\ group1_data = <<>>
    /\ group2_data = <<>>
    /\ statistic = NaN
    /\ p_value = NaN
    /\ z_score = NaN
    /\ effect_size \in 0..MaxEffect
    /\ desc_stats = Unset
    /\ results = ""
    /\ timestamp = NaN
    /\ workbook = Unset
    /\ plot = Unset
    /\ fslog = <<>>
    /\ console = <<>>

\* results holds the label the call returns.
Interpret ==
    /\ pc = "call"
    /\ results' = interpret_effect_size(effect_size)
    /\ pc' = "returned"
    /\ UNCHANGED <<input, clock, run, failedAt, output_prefix, df,
                   group1_data, group2_data, statistic, p_value, z_score,
                   effect_size, desc_stats, timestamp, workbook, plot, disk,
                   fslog, console>>

SpecInterpret == InitInterpret /\ [][Interpret]_vars

---------------------------------------------------------------------------
(* Properties *)

\* The stages whose assignments the run has made.
SplitDone ==
    \/ pc \in {"split", "tested", "reported", "plotted", "done"}
    \/ pc = "failed" /\ failedAt \in {"TestEngine", "Reporter", "Visualizer"}

TestDone ==
    \/ pc \in {"tested", "reported", "plotted", "done"}
    \/ pc = "failed" /\ failedAt \in {"Reporter", "Visualizer"}

ReportDone ==
    \/ pc \in {"reported", "plotted", "done"}
    \/ pc = "failed" /\ failedAt = "Visualizer"

ConsoleHas(tag) == \E i \in DOMAIN console : console[i].tag = tag

ConsoleValue(tag) ==
    console[CHOOSE i \in DOMAIN console : console[i].tag = tag].value

\* The files on disk this run wrote.
OwnFiles == {f \in DOMAIN disk : disk[f].run = run}

\* C1: interpret_effect_size(r) is "negligible" for r < 0.10, "small" for
\* 0.10 <= r < 0.30, "medium" for 0.30 <= r < 0.50 and "large" for r >= 0.50:
\* each threshold belongs to the higher band (0.099 negligible, 0.10 small,
\* 0.299 small, 0.30 medium, 0.499 medium, 0.50 large).
C1_Bands ==
    pc = "returned" =>
        /\ effect_size < 100 => results = "Negligible effect"
        /\ (100 <= effect_size /\ effect_size < 300) => results = "Small effect"
        /\ (300 <= effect_size /\ effect_size < 500) => results = "Medium effect"
        /\ effect_size >= 500 => results = "Large effect"
        /\ effect_size = 99 => results = "Negligible effect"
        /\ effect_size = 299 => results = "Small effect"
        /\ effect_size = 499 => results = "Medium effect"

C1_Witness ==
    /\ pc = "returned"
    /\ effect_size = 100
    /\ results = "Small effect"

\* C2: once the Reporter has run, the significance flag is 'Yes' exactly when
\* the p-value is strictly below 0.05 (p = 0.05 is not significant), and the
\* flag printed to the console equals the flag written to the workbook.
C2_Flag ==
    /\ ReportDone =>
          /\ workbook.TestResults.Significant \in {"Yes", "No"}
          /\ workbook.TestResults.Significant = "Yes"
                <=> (p_value # NaN /\ p_value < 50000)
    /\ pc = "done" =>
          ConsoleValue("Significant difference")
             = workbook.TestResults.Significant

\* A finished run whose p-value is exactly 0.05 (1 value against 39).
C2_Witness ==
    /\ pc = "done"
    /\ p_value = 50000
    /\ workbook.TestResults.Significant = "No"
    /\ ConsoleValue("Significant difference") = "No"

\* Every value of one sample is smaller than every value of the other.
FullySeparated(x, y) ==
    /\ x # <<>>
    /\ y # <<>>
    /\ \/ \A i \in DOMAIN x, j \in DOMAIN y : x[i] < y[j]
       \/ \A i \in DOMAIN x, j \in DOMAIN y : x[i] > y[j]

\* Pascal's rule.
RECURSIVE Binomial(_, _)
Binomial(n, k) ==
    IF k = 0 \/ k = n THEN 1 ELSE Binomial(n - 1, k - 1) + Binomial(n - 1, k)

\* C3 as stated: for any two fully separated samples the p-value is below
\* 0.05 and the significance flag is true.
C3_Original ==
    (TestDone /\ FullySeparated(group1_data, group2_data)) =>
        /\ p_value # NaN
        /\ p_value < 50000
        /\ ReportDone => results.Significant = "Yes"

\* C3 amended: for two fully separated samples without tied values, one of
\* them of at most 8 values, the p-value is 2 / C(n1+n2, n1) (at most 1), so
\* it is below 0.05, and the flag true, exactly when C(n1+n2, n1) > 40.
C3_SeparatedExact ==
    (/\ TestDone
     /\ FullySeparated(group1_data, group2_data)
     /\ ~HasTies(group1_data \o group2_data)
     /\ (Len(group1_data) <= 8 \/ Len(group2_data) <= 8)) =>
        LET b == Binomial(Len(group1_data) + Len(group2_data),
                          Len(group1_data))
        IN  /\ p_value = Min(Micro, (2 * Micro) \div b)
            /\ (p_value < 50000) <=> (b > 40)
            /\ ReportDone => (results.Significant = "Yes" <=> b > 40)

\* 4 values against 4: p = 2/70, significant.
C3_Witness ==
    /\ pc = "done"
    /\ group1_data = <<1, 2, 3, 4>>
    /\ group2_data = <<5, 6, 7, 8>>
    /\ p_value = 28571
    /\ results.Significant = "Yes"

\* C4 as stated: with an empty group sample the run fails in the rank-sum
\* computation and never reaches the Reporter: no workbook, no plot, no
\* test result.
C4_EmptyFails ==
    (SplitDone /\ (group1_data = <<>> \/ group2_data = <<>>)) =>
        /\ pc \in {"split", "failed"}
        /\ pc = "failed" => failedAt = "TestEngine"
        /\ results = Unset
        /\ workbook = Unset
        /\ plot = Unset
        /\ OwnFiles = {}

\* C5: Control = 1..10 against Treatment = 11..20 yields p < 0.001,
\* significance 'Yes' and the interpretation 'Large effect'.
C5_EndToEnd ==
    (input = Sheet(EndToEndDataset) /\ ReportDone) =>
        /\ p_value # NaN
        /\ p_value < 1000
        /\ workbook.TestResults.p = p_value
        /\ workbook.TestResults.Significant = "Yes"
        /\ workbook.TestResults.Interpretation = "Large effect"
        /\ pc = "done" =>
              /\ ConsoleValue("Significant difference") = "Yes"
              /\ ConsoleValue("Effect size interpretation") = "Large effect"

C5_Witness ==
    /\ input = Sheet(EndToEndDataset)
    /\ pc = "done"
    /\ Len(group1_data) = 10
    /\ Len(group2_data) = 10
    /\ effect_size >= 500

\* The same values, the same size.
Identical(x, y) == x # <<>> /\ Sorted(x) = Sorted(y)

\* C6: for two identical samples the p-value is 1.0 and the effect size 0
\* (z = ppf(0.5) = 0), hence the label for r < 0.10 and significance 'No'.
C6_Identical ==
    (TestDone /\ Identical(group1_data, group2_data)) =>
        /\ p_value = Micro
        /\ z_score = 0
        /\ effect_size = 0
        /\ ReportDone =>
              /\ results.p = Micro
              /\ results.EffectSize = 0
              /\ results.Interpretation = "Negligible effect"
              /\ results.Significant = "No"

\* Two samples holding 1 and 2 each, in different row orders.
C6_Witness ==
    /\ pc = "done"
    /\ group1_data = <<1, 2>>
    /\ group2_data = <<2, 1>>
    /\ p_value = Micro
    /\ results.Interpretation = "Negligible effect"

\* g holds exactly the values of the rows labelled name, once each, in row
\* order: its k-th value is the value of the k-th such row.
IsSelection(g, rows, name) ==
    LET idx == {i \in DOMAIN rows : rows[i].Group = name}
        kth(k) == CHOOSE i \in idx : Cardinality({j \in idx : j < i}) = k - 1
    IN  /\ Len(g) = Cardinality(idx)
        /\ \A k \in 1..Len(g) : g[k] = rows[kth(k)].Value

\* C7: each sample holds exactly the values of the rows with its label, in
\* row order; the table stays the one the Loader read, and the Visualizer
\* draws from it.
C7_Splitter ==
    /\ SplitDone =>
          /\ IsSelection(group1_data, input.rows, Group1Name)
          /\ IsSelection(group2_data, input.rows, Group2Name)
    /\ (pc \notin {"start", "call"} /\ failedAt # "Loader") =>
          df = [columns |-> input.columns, rows |-> input.rows]
    /\ plot # Unset =>
          /\ Len(plot.x) = Len(input.rows)
          /\ \A i \in DOMAIN input.rows :
                /\ plot.x[i] = input.rows[i].Group
                /\ plot.y[i] = input.rows[i].Value

\* Rows of the three labels interleaved, the plot drawn.
C7_Witness ==
    /\ pc = "done"
    /\ input.rows = <<Row(Group2Name, 2), Row(Group1Name, 2), Row("Other", 1),
                      Row(Group1Name, 1)>>
    /\ group1_data = <<2, 1>>
    /\ group2_data = <<2>>
    /\ plot # Unset

\* C8: a successful run reads the input, then writes the workbook, then the
\* plot, both names carrying the one timestamp; the statistics are printed
\* only after both files are written.
C8_FileSequence ==
    /\ Len(fslog) <= 3
    /\ Len(fslog) >= 1 => fslog[1] = [op |-> "read", file |-> ExcelPath]
    /\ Len(fslog) >= 2 =>
          fslog[2] = [op |-> "write",
                      file |-> [prefix |-> output_prefix, kind |-> "results",
                                stamp |-> timestamp]]
    /\ Len(fslog) >= 3 =>
          fslog[3] = [op |-> "write",
                      file |-> [prefix |-> output_prefix, kind |-> "plot",
                                stamp |-> timestamp]]
    /\ pc = "done" => Len(fslog) = 3
    /\ ConsoleHas("U-statistic") =>
          /\ Len(fslog) = 3
          /\ {fslog[2].file, fslog[3].file} \subseteq OwnFiles

\* A finished run whose plot was saved in a later second than the stamp.
C8_Witness ==
    /\ pc = "done"
    /\ Len(fslog) = 3
    /\ ConsoleHas("U-statistic")
    /\ Strftime(clock) # timestamp

\* What a failure leaves behind.
FailureLeaves ==
    /\ failedAt # "none" =>
          /\ pc = "failed"
          /\ ~ConsoleHas("U-statistic")
          /\ ~ConsoleHas("p-value")
          /\ plot = Unset
          /\ {f \in OwnFiles : f.kind = "plot"} = {}
    /\ failedAt \in {"Loader", "Splitter", "TestEngine"} =>
          /\ OwnFiles = {}
          /\ workbook = Unset
    /\ failedAt = "Visualizer" =>
          /\ workbook # Unset
          /\ OwnFiles = {[prefix |-> output_prefix, kind |-> "results",
                          stamp |-> timestamp]}

\* C9: a failure is a fatal abort: the run stays failed and nothing of it
\* changes afterwards; a failure before the Reporter leaves no output file
\* and no printed results, a failure in the Visualizer leaves the workbook
\* without a plot and without the printed results.
C9_FatalAbort ==
    [][/\ FailureLeaves'
       /\ failedAt # "none" =>
             UNCHANGED <<pc, failedAt, df, group1_data, group2_data,
                         statistic, p_value, z_score, effect_size,
                         desc_stats, results, timestamp, workbook, plot,
                         disk, fslog, console>>]_vars

C9_Witness ==
    /\ pc = "failed"
    /\ failedAt = "Visualizer"
    /\ workbook # Unset
    /\ Cardinality(DOMAIN disk) = 1
    /\ clock > 0

\* C10: a step replaces the content of an existing output file only with
\* the content of a run of the same prefix and the same timestamp; no file
\* is removed.
C10_Overwrite ==
    [][\A f \in DOMAIN disk :
          /\ f \in DOMAIN disk'
          /\ disk'[f] # disk[f] =>
                /\ disk[f].run < disk'[f].run
                /\ disk'[f].prefix = disk[f].prefix
                /\ disk'[f].stamp = disk[f].stamp]_vars

\* Two runs of the same prefix in different seconds: both workbooks remain.
C10_Witness ==
    \E f, g \in DOMAIN disk :
        /\ disk[f].run = 1
        /\ disk[g].run = 2
        /\ f.kind = g.kind
        /\ f.prefix = g.prefix
        /\ f.stamp # g.stamp

=============================================================================
